---- MODULE Spec2Model ----
(***************************************************************************)
(* The asynchronous task lifecycle of tmt-web: the Valkey-backed task      *)
(* store (TaskManager), the background wrapper that drives a task through  *)
(* PENDING -> STARTED -> SUCCESS/FAILURE, and the status endpoints of the  *)
(* HTTP layer.                                                             *)
(*                                                                         *)
(* The Valkey server is the environment: a key holds bytes with a time to  *)
(* live, SET replaces the bytes and the time to live, GET reads the bytes, *)
(* and a key whose time to live runs out is deleted.  A step of a process  *)
(* is its local computation up to and including its next client call;      *)
(* update_task makes two calls (GET, then SET) and so takes two steps.     *)
(***************************************************************************)
EXTENDS Integers, FiniteSets, Sequences, TLC

\* ------------------------------------------------------------------ bounds
MaxTasks == 2        \* task ids the uuid generator can hand out
TickLen == 43200     \* seconds per clock step (half the retention window)

\* --------------------------------------------------------------- constants
PENDING == "PENDING"
STARTED == "STARTED"
SUCCESS == "SUCCESS"
FAILURE == "FAILURE"

DEFAULT_TASK_EXPIRY == 60 * 60 * 24

None == "None"                                \* Python's None
Unserializable == "<UnserializableObject>"    \* a value json.dumps rejects

Ids == 1..MaxTasks
EmptyId == 0                                  \* the empty string as task-id
UnknownId == MaxTasks + 1                     \* a task-id uuid4 never produces

\* What the work function may do: return a value or raise with a message.
Returns == {None, "data", Unserializable}
Errors == {"Test not found", "boom"}
ConnectionError == "Connection refused"       \* str() of the client's error

\* What service.main may do: return the page, the JSON text or the YAML text
\* its generators produce for out_format, or raise a GeneralError.
HtmlText == "<html>/x</html>"
JsonText == "{name: /x, contact: [], tag: [], fmf-id: {name: /x}}"
YamlText == "name: /x"
MainReturns == {HtmlText, JsonText, YamlText}
MainErrors == {"Test '/x' not found", "Failed to clone repository: 404 Not Found",
               "Invalid test object"}

Formats == {"html", "json", "yaml"}

\* The repository: its default branch, the refs it has, and the refs a
\* request may name (none, one of them, or one it does not have).
DefaultBranch == "main"
Refs == {"main", "v1"}
RequestRefs == {None} \cup Refs \cup {"nope"}

\* ---------------------------------------------------------------- messages
\* The texts the model passes around are kept as strings; what the code does
\* to a text (lower(), the in operator) is computed on its characters.
Spelling(text) ==
    CASE text = "Error handling task result" ->
           <<"E","r","r","o","r"," ","h","a","n","d","l","i","n","g"," ","t","a","s","k"," ",
             "r","e","s","u","l","t">>
      [] text = "Error handling task result: Expecting value" ->
           <<"E","r","r","o","r"," ","h","a","n","d","l","i","n","g"," ","t","a","s","k"," ",
             "r","e","s","u","l","t",":"," ","E","x","p","e","c","t","i","n","g"," ",
             "v","a","l","u","e">>
      [] text = "Task not found" ->
             <<"T", "a", "s", "k", " ", "n", "o", "t", " ", "f", "o", "u", "n", "d">>
      [] text = "Test not found" ->
             <<"T", "e", "s", "t", " ", "n", "o", "t", " ", "f", "o", "u", "n", "d">>
      [] text = "boom" ->
             <<"b", "o", "o", "m">>
      [] text = "Connection refused" ->
             <<"C", "o", "n", "n", "e", "c", "t", "i", "o", "n", " ", "r", "e", "f", "u", "s", "e", "d">>
      [] text = "Test '/x' not found" ->
             <<"T", "e", "s", "t", " ", "'", "/", "x", "'", " ", "n", "o", "t", " ", "f", "o", "u", "n", "d">>
      [] text = "Failed to clone repository: 404 Not Found" ->
             <<"F", "a", "i", "l", "e", "d", " ", "t", "o", " ", "c", "l", "o", "n", "e", " ", "r", "e", "p", "o", "s", "i", "t", "o", "r", "y", ":", " ", "4", "0", "4", " ", "N", "o", "t", " ", "F", "o", "u", "n", "d">>
      [] text = "Invalid test object" ->
             <<"I", "n", "v", "a", "l", "i", "d", " ", "t", "e", "s", "t", " ", "o", "b", "j", "e", "c", "t">>
      [] text = "Missing required test parameters" ->
             <<"M", "i", "s", "s", "i", "n", "g", " ", "r", "e", "q", "u", "i", "r", "e", "d", " ", "t", "e", "s", "t", " ", "p", "a", "r", "a", "m", "e", "t", "e", "r", "s">>
      [] text = "Invalid combination of test and plan parameters" ->
             <<"I", "n", "v", "a", "l", "i", "d", " ", "c", "o", "m", "b", "i", "n", "a", "t", "i", "o", "n", " ", "o", "f", " ", "t", "e", "s", "t", " ", "a", "n", "d", " ", "p", "l", "a", "n", " ", "p", "a", "r", "a", "m", "e", "t", "e", "r", "s">>
      [] text = "Both test-url and test-name must be provided together" ->
             <<"B", "o", "t", "h", " ", "t", "e", "s", "t", "-", "u", "r", "l", " ", "a", "n", "d", " ", "t", "e", "s", "t", "-", "n", "a", "m", "e", " ", "m", "u", "s", "t", " ", "b", "e", " ", "p", "r", "o", "v", "i", "d", "e", "d", " ", "t", "o", "g", "e", "t", "h", "e", "r">>
      [] text = "Test '/missing required' not found" ->
             <<"T", "e", "s", "t", " ", "'", "/", "m", "i", "s", "s", "i", "n", "g", " ", "r", "e", "q", "u", "i", "r", "e", "d", "'", " ", "n", "o", "t", " ", "f", "o", "u", "n", "d">>
      [] text = "not found" ->
             <<"n", "o", "t", " ", "f", "o", "u", "n", "d">>
      [] text = "must be provided together" ->
             <<"m", "u", "s", "t", " ", "b", "e", " ", "p", "r", "o", "v", "i", "d", "e", "d", " ", "t", "o", "g", "e", "t", "h", "e", "r">>
      [] text = "missing required" ->
             <<"m", "i", "s", "s", "i", "n", "g", " ", "r", "e", "q", "u", "i", "r", "e", "d">>
      [] text = "invalid combination" ->
             <<"i", "n", "v", "a", "l", "i", "d", " ", "c", "o", "m", "b", "i", "n", "a", "t", "i", "o", "n">>

\* str.lower(), one character.
LowerChar(c) ==
    CASE c = "B" -> "b"
      [] c = "C" -> "c"
      [] c = "F" -> "f"
      [] c = "I" -> "i"
      [] c = "M" -> "m"
      [] c = "N" -> "n"
      [] c = "T" -> "t"
      [] OTHER -> c

\* str.lower()
Lower(chars) == [k \in DOMAIN chars |-> LowerChar(chars[k])]

\* needle in hay
Contains(hay, needle) ==
    \E k \in 0..(Len(hay) - Len(needle)) : SubSeq(hay, k + 1, k + Len(needle)) = needle


\* ------------------------------------------------------------------- state
VARIABLES
    store,      \* Valkey: key task:<id> -> bytes
    ttl,        \* Valkey: key task:<id> -> seconds to live (0: no key)
    storeUp,    \* whether the Valkey server answers
    used,       \* ids uuid4 has produced
    pc,         \* per task: where its wrapper stands
    arg,        \* per task: arguments of the wrapper's current update_task
    rd,         \* per task: bytes the current update_task has read
    work,       \* per task: how the work function ended
    log,        \* per task: what update_task has logged about it
    expired,    \* per task: whether its key ever ran out of time
    last,       \* per task: the status last written under its key
    poll,       \* the last get_task_info call and what it returned
    resp,       \* the response of the HTTP request the last step served
    clone,      \* the clone directory of the repository URL
    wk,         \* per worker: where its call of service.main stands
    format_html, \* the module-level flag of the first api.py
    codec       \* a data model on its way through serialize_data and back

vars == <<store, ttl, storeUp, used, pc, arg, rd, work, log, expired, last, poll, resp,
          clone, wk, format_html, codec>>

\* What the task manager and the tmt_web handlers neither read nor write.
svcvars == <<clone, wk, format_html, codec>>

\* What service.main, the repository and the first api.py's flag do not touch.
taskvars == <<store, ttl, storeUp, used, pc, arg, rd, work, log, expired, last, poll>>

\* ------------------------------------------------------------- task records
NullInfo == [id |-> EmptyId, status |-> None, result |-> None, error |-> None, updated |-> FALSE]

\* The dict create_task stores (created_at and updated_at are wall-clock
\* strings; the model keeps only whether the updated_at key is there).
NewTaskInfo(task_id) ==
    [id |-> task_id, status |-> PENDING, result |-> None, error |-> None, updated |-> FALSE]

\* The dict get_task_info returns for a missing key.
NotFoundInfo(task_id) ==
    [id |-> task_id, status |-> FAILURE, result |-> None, error |-> "Task not found", updated |-> FALSE]

\* Bytes under a key: none, bytes that are no JSON, or a dumped dict.
NoValue == [tag |-> "nil", info |-> NullInfo]
Garbage == [tag |-> "garbage", info |-> NullInfo]
json_dumps(info) == [tag |-> "json", info |-> info]
json_dumps_ok(info) == info.result # Unserializable
json_loads_ok(bytes) == bytes.tag = "json"
json_loads(bytes) == bytes.info

HasRecord(s, task_id) == s[task_id].tag = "json"
Terminal(status) == status \in {SUCCESS, FAILURE}
Rank(status) ==
    CASE status = PENDING -> 0
      [] status = STARTED -> 1
      [] status = SUCCESS -> 2
      [] status = FAILURE -> 2
      [] OTHER -> -1

\* ------------------------------------------------------------- return values
NoArg == [status |-> None, result |-> None, error |-> None]
NoWork == [kind |-> "none", value |-> None]
Returned(value) == [kind |-> "returned", value |-> value]
Raised(msg) == [kind |-> "raised", value |-> msg]
Ok(info) == [raised |-> FALSE, exc |-> None, info |-> info]
Exc(name) == [raised |-> TRUE, exc |-> name, info |-> NullInfo]
NoPoll == [id |-> EmptyId, view |-> Ok(NullInfo)]

\* The clone directory: whether it exists and which ref is checked out.
NoClone == [exists |-> FALSE, head |-> None]

\* A call of service.main: where it stands, the names it was given
\* (its branch), the ref it was given and how it ended.
Idle ==
    [pc |-> "idle",
     args |-> [test_url |-> FALSE, test_name |-> FALSE, plan_url |-> FALSE,
               plan_name |-> FALSE, ref |-> None],
     branch |-> None, out |-> NoWork]

\* A data model: its class and the values of its fields.
NoData == [model |-> "none", fields |-> [name |-> None]]

\* No data model is on its way.
NoCodec == [pc |-> "none", x |-> NoData, text |-> [name |-> None], y |-> NoData]

\* A URL of the API: its path and its task-id and format parameters.
NoUrl == [path |-> None, task_id |-> EmptyId, fmt |-> None]
Url(path, task_id, fmt) == [path |-> path, task_id |-> task_id, fmt |-> fmt]

\* A request to /: whether it has any query parameter, its task-id (EmptyId
\* when absent or empty), which of the four url and name parameters are
\* there, its format, and what USE_CELERY says while it is served.
NoReq == [query |-> FALSE, task_id |-> EmptyId, test_url |-> FALSE, test_name |-> FALSE,
          plan_url |-> FALSE, plan_name |-> FALSE, fmt |-> None, use_celery |-> TRUE]

\* A response: the endpoint and task it is about, its status code, what
\* raised it (for an error), its detail, the kind of body and the task
\* status, callback URL and Location it carries, and the request to /.
NoResp == [op |-> None, task_id |-> EmptyId, fmt |-> None, code |-> 0, detail |-> None,
           status |-> None, looked |-> FALSE, body |-> None, raised |-> None,
           callback |-> NoUrl, location |-> NoUrl, req |-> NoReq]

\* -------------------------------------------------------------------- Init
Init ==
    /\ store = [i \in Ids |-> NoValue]
    /\ ttl = [i \in Ids |-> 0]
    /\ storeUp = TRUE
    /\ used = {}
    /\ pc = [i \in Ids |-> "idle"]
    /\ arg = [i \in Ids |-> NoArg]
    /\ rd = [i \in Ids |-> NoValue]
    /\ work = [i \in Ids |-> NoWork]
    /\ log = [i \in Ids |-> {}]
    /\ expired = [i \in Ids |-> FALSE]
    /\ last = [i \in Ids |-> None]
    /\ poll = NoPoll
    /\ resp = NoResp
    /\ clone = NoClone
    /\ wk = [i \in Ids |-> Idle]
    /\ format_html = FALSE
    /\ codec = NoCodec

\* ------------------------------------------------------------ Valkey client
\* client.get(key): the bytes, or nothing for a key that is not there.
client_get(s, task_id) == IF task_id \in Ids THEN s[task_id] ELSE NoValue

\* A client.set under a key that does not depend on the task id.
client_set_one_key(task_id, bytes) ==
    /\ store' = [j \in Ids |-> bytes]
    /\ ttl' = [j \in Ids |-> DEFAULT_TASK_EXPIRY]
    /\ last' = [j \in Ids |-> json_loads(bytes).status]

\* client.set(key, bytes, ex=DEFAULT_TASK_EXPIRY)
client_set(task_id, bytes) ==
    /\ store' = [store EXCEPT ![task_id] = bytes]
    /\ ttl' = [ttl EXCEPT ![task_id] = DEFAULT_TASK_EXPIRY]
    /\ last' = [last EXCEPT ![task_id] = json_loads(bytes).status]

\* A write or an expiry of the polled key ends the "no update between" window.
PollAfterWrite(task_id) == IF poll.id = task_id THEN NoPoll ELSE poll

\* -------------------------------------------------------------- TaskManager
\* A get_task_info without the check for a missing key: json.loads(None).
get_task_info_view_unchecked(s, up, task_id) ==
    IF ~up THEN Exc("ConnectionError")
    ELSE IF ~json_loads_ok(client_get(s, task_id)) THEN Exc("TypeError")
    ELSE Ok(json_loads(client_get(s, task_id)))

\* get_task_info: one GET, then the synthesized record or json.loads.
get_task_info_view(s, up, task_id) ==
    IF ~up THEN Exc("ConnectionError")
    ELSE IF client_get(s, task_id).tag = "nil" THEN Ok(NotFoundInfo(task_id))
    ELSE IF ~json_loads_ok(client_get(s, task_id)) THEN Exc("JSONDecodeError")
    ELSE Ok(json_loads(client_get(s, task_id)))

\* A get_task_info that reads with GETEX and so renews the key's lifetime.
get_task_info_touch(task_id) ==
    /\ poll' = [id |-> task_id, view |-> get_task_info_view(store, storeUp, task_id)]
    /\ ttl' = [ttl EXCEPT ![task_id] = IF store[task_id].tag = "nil" THEN 0
                                       ELSE DEFAULT_TASK_EXPIRY]
    /\ resp' = NoResp
    /\ UNCHANGED <<store, storeUp, used, pc, arg, rd, work, log, expired, last>>

\* A caller polls: the call and its return value are remembered until the
\* key is next written or expires.
get_task_info(task_id) ==
    /\ poll' = [id |-> task_id, view |-> get_task_info_view(store, storeUp, task_id)]
    /\ resp' = NoResp
    /\ UNCHANGED <<store, ttl, storeUp, used, pc, arg, rd, work, log, expired, last>>

\* A merge that writes the error text whether or not one was given.
MergeTaskInfo_always(info, status, result, error) ==
    [info EXCEPT !.status = status,
                 !.result = IF result # None THEN result ELSE @,
                 !.error = IF error # None THEN error ELSE "",
                 !.updated = TRUE]

\* update_task lines 89-99: the fields merged into the dict that was read.
MergeTaskInfo(info, status, result, error) ==
    [info EXCEPT !.status = status,
                 !.result = IF result # None THEN result ELSE @,
                 !.error = IF error # None THEN error ELSE @,
                 !.updated = TRUE]

\* str(uuid.uuid4()): an id no task has had.  Ids are opaque, so the model
\* hands out the lowest unused one.
uuid4 == {i \in Ids \ used : \A j \in Ids \ used : i <= j}

\* A create_task that may hand out an id that is already in use.
create_task_reuse(task_id) ==
    /\ used' = used \cup {task_id}
    /\ client_set(task_id, json_dumps(NewTaskInfo(task_id)))

\* create_task: a fresh uuid4, the initial dict, one SET.
create_task(task_id) ==
    /\ task_id \in uuid4
    /\ used' = used \cup {task_id}
    /\ client_set(task_id, json_dumps(NewTaskInfo(task_id)))

\* Where the wrapper goes when update_task(status, ...) returns.
AfterUpdate(status) == IF status = STARTED THEN "call" ELSE "done"

Args(status, result, error) == [status |-> status, result |-> result, error |-> error]

\* update_task(a.status, ...) raises msg.  Called from the try block, the
\* except clause takes over and will call update_task(task_id, FAILURE,
\* error=msg); called from the except clause, nothing catches it and it
\* leaves the wrapper.
WrapperRaise(task_id, a, msg) ==
    IF a.status # FAILURE
    THEN /\ pc' = [pc EXCEPT ![task_id] = "except"]
         /\ arg' = [arg EXCEPT ![task_id] = Args(FAILURE, None, msg)]
    ELSE /\ pc' = [pc EXCEPT ![task_id] = "escaped"]
         /\ arg' = [arg EXCEPT ![task_id] = a]

\* update_task(a.status, ...) returns.
WrapperReturn(task_id, a) ==
    /\ pc' = [pc EXCEPT ![task_id] = AfterUpdate(a.status)]
    /\ arg' = [arg EXCEPT ![task_id] = a]

Logged(task_id, what) == log' = [log EXCEPT ![task_id] = @ \cup {what}]

\* An update_task that treats a missing key as an empty record and writes it.
update_task_get_upsert(task_id, a) ==
    IF client_get(store, task_id).tag = "nil"
    THEN /\ client_set(task_id, json_dumps(MergeTaskInfo(NewTaskInfo(task_id),
                  a.status, a.result, a.error)))
         /\ WrapperReturn(task_id, a)
         /\ poll' = PollAfterWrite(task_id)
         /\ UNCHANGED <<rd, log>>
    ELSE /\ rd' = [rd EXCEPT ![task_id] = client_get(store, task_id)]
         /\ pc' = [pc EXCEPT ![task_id] = "set"]
         /\ arg' = [arg EXCEPT ![task_id] = a]
         /\ UNCHANGED <<store, ttl, last, poll, log>>

\* update_task called with arguments a, first half: GET and the early
\* return on a missing key.
update_task_get(task_id, a) ==
    /\ IF ~storeUp
       THEN WrapperRaise(task_id, a, ConnectionError) /\ UNCHANGED <<rd, log>>
       ELSE IF client_get(store, task_id).tag = "nil"
       THEN WrapperReturn(task_id, a) /\ Logged(task_id, "update non-existent") /\ rd' = rd
       ELSE /\ rd' = [rd EXCEPT ![task_id] = client_get(store, task_id)]
            /\ pc' = [pc EXCEPT ![task_id] = "set"]
            /\ arg' = [arg EXCEPT ![task_id] = a]
            /\ log' = log
    /\ UNCHANGED <<store, ttl, last, poll>>

\* update_task, second half: json.loads, merge, json.dumps, SET; the decode
\* and encode errors are logged and swallowed, a client error is not.
update_task_set(task_id) ==
    /\ pc[task_id] = "set"
    /\ rd' = [rd EXCEPT ![task_id] = NoValue]
    /\ LET a == arg[task_id]
           info == MergeTaskInfo(json_loads(rd[task_id]), a.status, a.result, a.error)
       IN IF ~json_loads_ok(rd[task_id])
          THEN /\ WrapperReturn(task_id, a) /\ Logged(task_id, "decode")
               /\ UNCHANGED <<store, ttl, last, poll>>
          ELSE IF ~json_dumps_ok(info)
          THEN /\ WrapperReturn(task_id, a) /\ Logged(task_id, "encode")
               /\ UNCHANGED <<store, ttl, last, poll>>
          ELSE IF ~storeUp
          THEN /\ WrapperRaise(task_id, a, ConnectionError)
               /\ UNCHANGED <<store, ttl, last, poll, log>>
          ELSE /\ client_set(task_id, json_dumps(info))
               /\ poll' = PollAfterWrite(task_id)
               /\ WrapperReturn(task_id, a)
               /\ log' = log
    /\ resp' = NoResp
    /\ UNCHANGED <<storeUp, used, work, expired>>

\* task_wrapper starts: update_task(task_id, STARTED), up to its GET.
task_wrapper_start(task_id) ==
    /\ pc[task_id] = "queued"
    /\ update_task_get(task_id, Args(STARTED, None, None))
    /\ resp' = NoResp
    /\ UNCHANGED <<storeUp, used, work, expired>>

\* result = func(**kwargs) returns a value or raises, and the wrapper calls
\* update_task(task_id, SUCCESS, result=result) or, from the except clause,
\* update_task(task_id, FAILURE, error=str(exc)), up to its GET.
task_wrapper_func(task_id, returns, errors) ==
    /\ pc[task_id] = "call"
    /\ \/ \E r \in returns :
            /\ work' = [work EXCEPT ![task_id] = Returned(r)]
            /\ update_task_get(task_id, Args(SUCCESS, r, None))
       \/ \E m \in errors :
            /\ work' = [work EXCEPT ![task_id] = Raised(m)]
            /\ update_task_get(task_id, Args(FAILURE, None, m))
    /\ resp' = NoResp
    /\ UNCHANGED <<storeUp, used, expired>>

\* The wrapper of a task whose func is any callable.
task_wrapper_call(task_id) == task_wrapper_func(task_id, Returns, Errors)

\* The wrapper of a task the API scheduled: func is service.main.
task_wrapper_main(task_id) == task_wrapper_func(task_id, MainReturns, MainErrors)

\* The except clause after an update_task of the try block raised:
\* update_task(task_id, FAILURE, error=str(exc)), up to its GET.
task_wrapper_except(task_id) ==
    /\ pc[task_id] = "except"
    /\ update_task_get(task_id, arg[task_id])
    /\ resp' = NoResp
    /\ UNCHANGED <<storeUp, used, work, expired>>

\* An execute_task that runs the work before it returns the id.
execute_task_inline(task_id) ==
    /\ task_id \in uuid4
    /\ used' = used \cup {task_id}
    /\ client_set(task_id, json_dumps(MergeTaskInfo(NewTaskInfo(task_id), SUCCESS, "data", None)))
    /\ pc' = [pc EXCEPT ![task_id] = "done"]

\* execute_task: create_task, then background_tasks.add_task(task_wrapper).
execute_task(task_id) ==
    /\ create_task(task_id)
    /\ pc' = [pc EXCEPT ![task_id] = "queued"]

\* ------------------------------------------------------------- environment
\* TickLen seconds pass while some key is alive; keys out of time are
\* deleted by the server.
Tick ==
    /\ \E i \in Ids : store[i].tag # "nil"
    /\ LET dead == {i \in Ids : store[i].tag # "nil" /\ ttl[i] <= TickLen}
       IN /\ store' = [i \in Ids |-> IF i \in dead THEN NoValue ELSE store[i]]
          /\ ttl' = [i \in Ids |-> IF store[i].tag = "nil" \/ i \in dead THEN 0 ELSE ttl[i] - TickLen]
          /\ expired' = [i \in Ids |-> expired[i] \/ i \in dead]
          /\ poll' = IF poll.id \in dead THEN NoPoll ELSE poll
    /\ resp' = NoResp
    /\ UNCHANGED <<storeUp, used, pc, arg, rd, work, log, last>>

\* The server stops answering, or answers again.
store_down ==
    /\ storeUp
    /\ storeUp' = FALSE
    /\ resp' = NoResp
    /\ UNCHANGED <<store, ttl, used, pc, arg, rd, work, log, expired, last, poll>>

store_up ==
    /\ ~storeUp
    /\ storeUp' = TRUE
    /\ resp' = NoResp
    /\ UNCHANGED <<store, ttl, used, pc, arg, rd, work, log, expired, last, poll>>

\* Something other than the task manager overwrites a task's bytes.
corrupt(task_id) ==
    /\ store[task_id].tag = "json"
    /\ store' = [store EXCEPT ![task_id] = Garbage]
    /\ poll' = PollAfterWrite(task_id)
    /\ resp' = NoResp
    /\ UNCHANGED <<ttl, storeUp, used, pc, arg, rd, work, log, expired, last>>

\* ---------------------------------------------------------------- HTTP layer
\* "not found" in error_message.lower()
ContainsNotFound(msg) == Contains(Lower(Spelling(msg)), Spelling("not found"))

\* _to_task_out: the task-status object of a looked-up task, with the
\* callback URL of the requested format.
to_task_out(info, out_format) ==
    [NoResp EXCEPT !.code = 200, !.body = "task_out", !.status = info.status,
                   !.callback = Url(IF out_format = "html" THEN "/status/html" ELSE "/status",
                                    info.id, None)]

\* The page generate_status_callback renders when it is called with a task
\* and a callback URL only: its status parameter keeps the default.
status_callback_page(task_id, status_callback_url) ==
    [NoResp EXCEPT !.code = 200, !.body = "status_page", !.status = PENDING,
                   !.callback = status_callback_url]

HTTPException(status_code, detail) ==
    [NoResp EXCEPT !.code = status_code, !.body = "detail", !.raised = "HTTPException",
                   !.detail = detail]

\* The response of a task-creating request served with the task queue.
SubmitResponse(task_id, fmt, info) ==
    [(IF fmt = "html"
      THEN status_callback_page(task_id, Url("/status/html", task_id, None))
      ELSE to_task_out(info, fmt))
     EXCEPT !.op = "submit", !.task_id = task_id, !.fmt = fmt, !.looked = fmt # "html"]

\* _process_async_request for the request req: execute_task, then the
\* task-status response.
process_async_request_of(req, fmt) ==
    IF ~storeUp
    THEN /\ resp' = [NoResp EXCEPT !.op = "submit", !.code = 500, !.req = req]
         /\ UNCHANGED <<store, ttl, storeUp, used, pc, arg, rd, work, log, expired, last, poll>>
    ELSE /\ \E task_id \in Ids :
              /\ execute_task(task_id)
              /\ poll' = PollAfterWrite(task_id)
              /\ resp' = [SubmitResponse(task_id, fmt, json_loads(store'[task_id]))
                          EXCEPT !.req = req]
         /\ UNCHANGED <<storeUp, arg, rd, work, log, expired>>

\* A task-creating request: execute_task, then the task-status response
\* (the HTML status page is rendered with the generator's default status).
process_async_request(fmt) == process_async_request_of(NoReq, fmt)

\* The handlers' look-up of a task by id: the task store's get_task_info.
AsyncResult(task_id) == get_task_info_view(store, storeUp, task_id)

\* What a status endpoint answers once it has looked the task up: /status
\* answers 404 for a failure whose text says "not found" and the task-status
\* object otherwise, /status/html redirects a success that has a result and
\* renders the status page otherwise.
StatusResponse(op, task_id, view) ==
    IF view.raised
    THEN [NoResp EXCEPT !.op = op, !.task_id = task_id, !.code = 500, !.looked = TRUE]
    ELSE IF op = "status" /\ view.info.status = FAILURE /\ ContainsNotFound(view.info.error)
    THEN [HTTPException(404, view.info.error)
          EXCEPT !.op = op, !.task_id = task_id, !.looked = TRUE]
    ELSE IF op = "status_html" /\ view.info.status = SUCCESS /\ view.info.result # None
    THEN [NoResp EXCEPT !.op = op, !.task_id = task_id, !.code = 303, !.looked = TRUE,
                        !.fmt = "html", !.body = "redirect",
                        !.location = Url("/", view.info.id, "html")]
    ELSE IF op = "status_html"
    THEN [status_callback_page(view.info.id, Url("/status/html", view.info.id, None))
          EXCEPT !.op = op, !.task_id = task_id, !.looked = TRUE, !.fmt = "html"]
    ELSE [to_task_out(view.info, "json")
          EXCEPT !.op = op, !.task_id = task_id, !.looked = TRUE, !.fmt = "json"]

RequiredResponse(op, task_id) ==
    [HTTPException(400, "task-id is required") EXCEPT !.op = op, !.task_id = task_id]

\* A /status that looks the task up before it checks the parameter.
get_task_status_nocheck(task_id) ==
    /\ resp' = StatusResponse("status", task_id, AsyncResult(task_id))
    /\ UNCHANGED <<store, ttl, storeUp, used, pc, arg, rd, work, log, expired, last, poll>>

\* GET /status?task-id=...
get_task_status(task_id) ==
    /\ resp' = IF task_id = EmptyId
               THEN RequiredResponse("status", task_id)
               ELSE StatusResponse("status", task_id, AsyncResult(task_id))
    /\ UNCHANGED <<store, ttl, storeUp, used, pc, arg, rd, work, log, expired, last, poll>>

\* GET /status/html?task-id=...
get_task_status_html(task_id) ==
    /\ resp' = IF task_id = EmptyId
               THEN RequiredResponse("status_html", task_id)
               ELSE StatusResponse("status_html", task_id, AsyncResult(task_id))
    /\ UNCHANGED <<store, ttl, storeUp, used, pc, arg, rd, work, log, expired, last, poll>>

\* ------------------------------------------------------------ the root endpoint

\* json.loads on a stored result: the JSON document parses to an object with
\* these keys, the other texts are no JSON.
json_loads_text(text) ==
    IF text = JsonText
    THEN [ok |-> TRUE, keys |-> {"name", "contact", "tag", "fmf-id"}]
    ELSE [ok |-> FALSE, keys |-> {}]

\* deserialize_data: the data model the stored string is read as, or the
\* exception json.loads raised.
deserialize_data(data_str) ==
    LET data == json_loads_text(data_str)
    IN  IF ~data.ok THEN Exc("Expecting value")
        ELSE IF {"test", "plan"} \subseteq data.keys THEN Ok("TestPlanData")
        ELSE IF "framework" \in data.keys THEN Ok("TestData")
        ELSE Ok("PlanData")

\* format_data: the data model rendered in the requested format.
format_data(data, out_format) ==
    CASE out_format = "html" -> Ok(HtmlText)
      [] out_format = "json" -> Ok(JsonText)
      [] out_format = "yaml" -> Ok(YamlText)
      [] OTHER -> Exc("Unsupported output format")

\* The detail of the 500 that reports the exception e of the finalization.
ErrorHandlingTaskResult(e) ==
    CASE e = "Expecting value" -> "Error handling task result: Expecting value"
      [] OTHER -> "Error handling task result"

StartsWith(chars, prefix) ==
    /\ Len(prefix) <= Len(chars)
    /\ SubSeq(chars, 1, Len(prefix)) = prefix

\* The final result of a task, delivered in the requested format.
ResultResponse(out_format) ==
    [NoResp EXCEPT !.code = 200, !.body = "result", !.fmt = out_format]

\* A _handle_task_result whose except clause answers 200 with nothing.
handle_task_result_swallow(view, out_format) ==
    IF view.raised THEN [NoResp EXCEPT !.code = 500]
    ELSE IF view.info.status = FAILURE /\ ContainsNotFound(view.info.error)
    THEN HTTPException(404, view.info.error)
    ELSE IF view.info.status = SUCCESS /\ view.info.result # None
    THEN ResultResponse(out_format)
    ELSE to_task_out(view.info, out_format)

\* A _handle_task_result that renders the status page for format html.
handle_task_result_page(view, out_format) ==
    IF view.raised THEN [NoResp EXCEPT !.code = 500]
    ELSE IF view.info.status = FAILURE /\ ContainsNotFound(view.info.error)
    THEN HTTPException(404, view.info.error)
    ELSE IF view.info.status = SUCCESS /\ view.info.result # None
    THEN ResultResponse(out_format)
    ELSE IF out_format = "html"
    THEN status_callback_page(view.info.id, Url("/status/html", view.info.id, None))
    ELSE to_task_out(view.info, out_format)

\* _handle_task_result: 404 for a failure whose text says "not found"; the
\* final result for a success that has one, 500 when finalizing it raises;
\* the task-status object in every other case.
handle_task_result(view, out_format) ==
    IF view.raised THEN [NoResp EXCEPT !.code = 500]
    ELSE IF view.info.status = FAILURE /\ ContainsNotFound(view.info.error)
    THEN HTTPException(404, view.info.error)
    ELSE IF view.info.status = SUCCESS /\ view.info.result # None
    THEN LET data == deserialize_data(view.info.result)
             formatted_result == IF data.raised THEN data
                                 ELSE format_data(data.info, out_format)
         IN  IF formatted_result.raised
             THEN HTTPException(500, ErrorHandlingTaskResult(formatted_result.exc))
             ELSE ResultResponse(out_format)
    ELSE to_task_out(view.info, out_format)

\* A _validate_parameters that checks the plan pair before the test pair.
validate_parameters_plan_first(test_url, test_name, plan_url, plan_name) ==
    IF plan_url # plan_name
    THEN "Both plan-url and plan-name must be provided together"
    ELSE IF test_url # test_name
    THEN "Both test-url and test-name must be provided together"
    ELSE IF ~plan_url /\ ~plan_name /\ ~test_url /\ ~test_name
    THEN "At least one of test or plan parameters must be provided"
    ELSE None

\* A _validate_parameters that is content with any one parameter.
validate_parameters_any(test_url, test_name, plan_url, plan_name) ==
    IF ~plan_url /\ ~plan_name /\ ~test_url /\ ~test_name
    THEN "At least one of test or plan parameters must be provided"
    ELSE None

\* _validate_parameters on the presence of the four parameters: the detail
\* of the HTTPException it raises, None when it returns.
validate_parameters(test_url, test_name, plan_url, plan_name) ==
    IF (~test_url /\ test_name) \/ (test_url /\ ~test_name)
    THEN "Both test-url and test-name must be provided together"
    ELSE IF (~plan_url /\ plan_name) \/ (plan_url /\ ~plan_name)
    THEN "Both plan-url and plan-name must be provided together"
    ELSE IF ~plan_url /\ ~plan_name /\ ~test_url /\ ~test_name
    THEN "At least one of test or plan parameters must be provided"
    ELSE None

\* The response general_exception_handler builds for a GeneralError.
ExceptionResponse(status_code, msg) ==
    [NoResp EXCEPT !.code = status_code, !.body = "detail", !.raised = "GeneralError",
                   !.detail = msg]

\* A general_exception_handler that tests the 400 phrases first.
general_exception_handler_400_first(msg) ==
    LET lower == Lower(Spelling(msg))
    IN  IF \E phrase \in {"must be provided together", "missing required",
                          "invalid combination"} : Contains(lower, Spelling(phrase))
        THEN ExceptionResponse(400, msg)
        ELSE IF Contains(lower, Spelling("not found"))
        THEN ExceptionResponse(404, msg)
        ELSE ExceptionResponse(500, msg)

\* general_exception_handler: the status code from the lower-cased message.
general_exception_handler(msg) ==
    LET lower == Lower(Spelling(msg))
    IN  IF Contains(lower, Spelling("not found"))
        THEN ExceptionResponse(404, msg)
        ELSE IF \E phrase \in {"must be provided together", "missing required",
                               "invalid combination"} : Contains(lower, Spelling(phrase))
        THEN ExceptionResponse(400, msg)
        ELSE ExceptionResponse(500, msg)

\* The messages a GeneralError reaches the exception handler with.
GeneralErrors ==
    MainErrors \cup {"Missing required test parameters",
                     "Invalid combination of test and plan parameters",
                     "Both test-url and test-name must be provided together",
                     "Test '/missing required' not found"}

\* service.main called in the request: the output in the requested format
\* or a GeneralError. The messages are a superset of those main can raise
\* for the request: the exception handler is the same for all of them.
service_main(out_format) ==
    {Returned(format_data("PlanData", out_format).info)}
        \cup {Raised(msg) : msg \in GeneralErrors}

\* _process_synchronous_request, with the exception handler behind it.
process_synchronous_request(out_format) ==
    {IF outcome.kind = "raised" THEN general_exception_handler(outcome.value)
     ELSE ResultResponse(out_format) : outcome \in service_main(out_format)}

\* The response names its endpoint and its request.
RootResponse(req, r) ==
    [r EXCEPT !.op = "root", !.task_id = req.task_id, !.fmt = req.fmt, !.req = req,
              !.looked = req.task_id # EmptyId]

Reply(r) ==
    /\ resp' = r
    /\ UNCHANGED <<store, ttl, storeUp, used, pc, arg, rd, work, log, expired, last, poll>>

RedirectResponse(url) ==
    [NoResp EXCEPT !.code = 307, !.body = "redirect", !.location = url]

\* A root that validates and creates before it looks at task-id.
root_create_first(req) ==
    IF ~req.query THEN Reply(RootResponse(req, RedirectResponse(Url("/docs", EmptyId, None))))
    ELSE IF validate_parameters(req.test_url, req.test_name, req.plan_url, req.plan_name) # None
    THEN Reply(RootResponse(req, HTTPException(400,
                 validate_parameters(req.test_url, req.test_name, req.plan_url, req.plan_name))))
    ELSE process_async_request_of(req, req.fmt)

\* GET / : the redirect to the documentation, the view of an existing task,
\* or a task-creating request, served in the request or through the queue.
root(req) ==
    IF ~req.query THEN Reply(RootResponse(req, RedirectResponse(Url("/docs", EmptyId, None))))
    ELSE IF req.task_id # EmptyId
    THEN Reply(RootResponse(req, handle_task_result(AsyncResult(req.task_id), req.fmt)))
    ELSE IF validate_parameters(req.test_url, req.test_name, req.plan_url, req.plan_name) # None
    THEN Reply(RootResponse(req, HTTPException(400,
                 validate_parameters(req.test_url, req.test_name, req.plan_url, req.plan_name))))
    ELSE IF ~req.use_celery
    THEN \E r \in process_synchronous_request(req.fmt) : Reply(RootResponse(req, r))
    ELSE process_async_request_of(req, req.fmt)

\* The ids a client asks about: those the API handed out, and one it never did.
Known == used \cup {UnknownId}

\* GET /?task-id=<id>&format=<fmt>
TaskRequest(task_id, fmt) ==
    [NoReq EXCEPT !.query = TRUE, !.task_id = task_id, !.fmt = fmt]

\* The requests to /: none with a parameter when the query is empty.
Requests ==
    {NoReq} \cup
    [query : {TRUE}, task_id : Ids \cup {EmptyId, UnknownId},
     test_url : BOOLEAN, test_name : BOOLEAN, plan_url : BOOLEAN, plan_name : BOOLEAN,
     fmt : Formats, use_celery : BOOLEAN]

\* ------------------------------------------------------- the first api.py
\* _to_task_out of src/api.py: the task-status object, whose callback is
\* always /status.
api_to_task_out(info) ==
    [NoResp EXCEPT !.code = 200, !.body = "task_out", !.status = info.status,
                   !.callback = Url("/status", info.id, None)]

\* generate_status_callback of the first generator: the page with the
\* link to the callback for a PENDING task, the page with status and
\* result otherwise.
api_generate_status_callback(info, status_callback_url) ==
    [NoResp EXCEPT !.code = 200, !.body = "status_page", !.status = info.status,
                   !.callback = IF info.status = PENDING THEN status_callback_url ELSE NoUrl]

\* What status answers for a task it has looked up, with the flag
\* format_html as given.
api_status_response(task_id, info, flag) ==
    [(IF flag THEN api_generate_status_callback(info, Url("/status", task_id, None))
      ELSE api_to_task_out(info))
     EXCEPT !.op = "api_status", !.task_id = task_id, !.looked = TRUE]

\* The requests to / of the first api.py, which has no task-id parameter.
ApiRequests == {req \in Requests : req.query /\ req.task_id = EmptyId}

\* find_test, GET / of src/api.py: "Invalid arguments!" for a url without
\* its name or a name without its url; service.main in the request when
\* USE_CELERY is "false"; otherwise the task is queued, the module's flag
\* format_html is set to whether the format is html, and the status page
\* or the task-status object is returned.
api_find_test(req) ==
    IF req.test_url # req.test_name \/ req.plan_url # req.plan_name
    THEN /\ resp' = [NoResp EXCEPT !.op = "api_find_test", !.code = 200, !.body = "text",
                                   !.detail = "Invalid arguments!"]
         /\ UNCHANGED <<taskvars, svcvars>>
    ELSE IF ~req.use_celery
    THEN /\ \E kind \in {outcome.kind : outcome \in service_main(req.fmt)} :
              resp' = [NoResp EXCEPT !.op = "api_find_test", !.fmt = req.fmt,
                                     !.code = IF kind = "raised" THEN 500 ELSE 200,
                                     !.body = IF kind = "raised" THEN None ELSE "result"]
         /\ UNCHANGED <<taskvars, svcvars>>
    ELSE /\ \E task_id \in Ids :
              /\ execute_task(task_id)
              /\ poll' = PollAfterWrite(task_id)
              /\ resp' = [(IF req.fmt = "html"
                           THEN api_generate_status_callback(json_loads(store'[task_id]),
                                                             Url("/status", task_id, None))
                           ELSE api_to_task_out(json_loads(store'[task_id])))
                          EXCEPT !.op = "api_find_test", !.task_id = task_id,
                                 !.fmt = req.fmt]
         /\ format_html' = (req.fmt = "html")
         /\ UNCHANGED <<storeUp, arg, rd, work, log, expired>>
         /\ UNCHANGED <<clone, wk, codec>>

\* status, GET /status?task_id=... of src/api.py: the page when the flag
\* format_html is set, the task-status object otherwise.
api_status(task_id) ==
    /\ resp' = api_status_response(task_id, AsyncResult(task_id).info, format_html)
    /\ UNCHANGED <<taskvars, svcvars>>

\* -------------------------------------------------------------- data models
\* The fields of the models that tell a test from a plan, with one field
\* they share, and the field that has an alias.
TestFields == {"name", "summary", "framework", "fmf_id"}
PlanFields == {"name", "summary", "discover", "fmf_id"}

Fields(model) == IF model = "TestData" THEN TestFields ELSE PlanFields

\* Field(None, alias="fmf-id")
Alias(f) == IF f = "fmf_id" THEN "fmf-id" ELSE f

\* The values a field takes: name is required, every other field may be None.
FieldValues(f) ==
    CASE f = "name" -> {"/x"}
      [] f = "summary" -> {None, "text"}
      [] f = "framework" -> {None, "shell"}
      [] f = "discover" -> {None, "fmf"}
      [] f = "fmf_id" -> {None, "FmfIdData"}

\* The values of a model with these fields.
Models(model) ==
    {[model |-> model, fields |-> g] :
        g \in {h \in [Fields(model) -> UNION {FieldValues(f) : f \in Fields(model)}] :
                  \A f \in Fields(model) : h[f] \in FieldValues(f)}}

TestData == Models("TestData")
PlanData == Models("PlanData")
TestPlanData ==
    {[model |-> "TestPlanData", fields |-> [test |-> t, plan |-> p]] :
        t \in TestData, p \in PlanData}

\* A model_dump_json with exclude_none=True: the fields that are None are
\* left out.
model_dump_exclude_none(x) ==
    [k \in {Alias(f) : f \in {g \in DOMAIN x.fields : x.fields[g] # None}} |->
        x.fields[CHOOSE f \in DOMAIN x.fields : Alias(f) = k]]

\* model_dump(by_alias=True) of a test or a plan: every declared field
\* under its alias, None included; the class is not part of the output.
model_dump(x) ==
    [k \in {Alias(f) : f \in DOMAIN x.fields} |->
        x.fields[CHOOSE f \in DOMAIN x.fields : Alias(f) = k]]

\* serialize_data: data.model_dump_json(by_alias=True), as the object
\* json.loads reads from it.
serialize_data(x) ==
    IF x.model = "TestPlanData"
    THEN [test |-> model_dump(x.fields.test), plan |-> model_dump(x.fields.plan)]
    ELSE model_dump(x)

\* model_validate of a test or a plan: each declared field from its alias
\* or its name (populate_by_name), None when the key is not there; keys
\* that are no field are ignored.
model_validate(model, data) ==
    [model |-> model,
     fields |-> [f \in Fields(model) |->
                    IF Alias(f) \in DOMAIN data THEN data[Alias(f)]
                    ELSE IF f \in DOMAIN data THEN data[f]
                    ELSE None]]

\* deserialize_data on the object json.loads has read: the class from the
\* keys that are there.
deserialize_data_object(data) ==
    IF {"test", "plan"} \subseteq DOMAIN data
    THEN [model |-> "TestPlanData",
          fields |-> [test |-> model_validate("TestData", data.test),
                      plan |-> model_validate("PlanData", data.plan)]]
    ELSE IF "framework" \in DOMAIN data
    THEN model_validate("TestData", data)
    ELSE model_validate("PlanData", data)

\* test_to_model, plan_to_model or create_testplan_data has built x.
to_model(x) ==
    /\ codec.pc = "none"
    /\ codec' = [NoCodec EXCEPT !.pc = "model", !.x = x]
    /\ UNCHANGED <<clone, wk, format_html>>

\* serialize_data(x), for storage.
Serialize ==
    /\ codec.pc = "model"
    /\ codec' = [codec EXCEPT !.pc = "stored", !.text = serialize_data(codec.x)]
    /\ UNCHANGED <<clone, wk, format_html>>

\* deserialize_data of what was stored.
Deserialize ==
    /\ codec.pc = "stored"
    /\ codec' = [codec EXCEPT !.pc = "read", !.y = deserialize_data_object(codec.text)]
    /\ UNCHANGED <<clone, wk, format_html>>

\* The data model has been formatted for the response; the next one.
Formatted ==
    /\ codec.pc = "read"
    /\ codec' = NoCodec
    /\ UNCHANGED <<clone, wk, format_html>>

\* ------------------------------------------------------------ service.main
\* The arguments of service.main that decide its branch and its checkout:
\* which urls and names are there, and the ref.
MainArgs ==
    [test_url : BOOLEAN, test_name : BOOLEAN, plan_url : BOOLEAN, plan_name : BOOLEAN,
     ref : RequestRefs]

\* A main that asks for the urls of both objects whenever a name is there.
main_dispatch_strict(a) ==
    IF ~a.test_name /\ ~a.plan_name
    THEN Raised("Invalid combination of test and plan parameters")
    ELSE IF ~a.test_url \/ ~a.plan_url
    THEN Raised("Missing required test/plan parameters")
    ELSE Returned("testplan")

\* main's dispatch on the names: the request it goes on with, or the
\* GeneralError it raises.
main_dispatch(a) ==
    IF a.test_name /\ ~a.plan_name
    THEN IF ~a.test_url THEN Raised("Missing required test parameters")
         ELSE Returned("test")
    ELSE IF a.plan_name /\ ~a.test_name
    THEN IF ~a.plan_url THEN Raised("Missing required plan parameters")
         ELSE Returned("plan")
    ELSE IF a.plan_name /\ a.test_name
    THEN IF ~a.test_url \/ ~a.plan_url THEN Raised("Missing required test/plan parameters")
         ELSE Returned("testplan")
    ELSE Raised("Invalid combination of test and plan parameters")

\* The call of worker i ends with an exception.
Fails(i, msg) ==
    wk' = [wk EXCEPT ![i] = [@ EXCEPT !.pc = "done", !.out = Raised(msg)]]

\* Worker i goes on to the next step of its call.
GoesTo(i, where) == wk' = [wk EXCEPT ![i].pc = where]

\* service.main(**a) is called in worker i: the dispatch, up to the call
\* of get_git_repository.
main(i, a) ==
    /\ wk[i].pc = "idle"
    /\ LET d == main_dispatch(a)
       IN  wk' = [wk EXCEPT ![i] =
                    IF d.kind = "raised"
                    THEN [pc |-> "done", args |-> a, branch |-> None, out |-> d]
                    ELSE [pc |-> "exists", args |-> a, branch |-> d.value, out |-> NoWork]]
    /\ UNCHANGED <<clone, format_html, codec>>

\* get_git_repository: destination.exists()
get_git_repository_exists(i) ==
    /\ wk[i].pc = "exists"
    /\ GoesTo(i, IF clone.exists THEN "checkout" ELSE "clone")
    /\ UNCHANGED <<clone, format_html, codec>>

\* clone_repository: git clone into the destination, which fails when the
\* destination is there by now; get_tree turns the error into a GeneralError.
clone_repository(i) ==
    /\ wk[i].pc = "clone"
    /\ IF clone.exists
       THEN /\ Fails(i, "Failed to clone repository: destination path already exists")
            /\ clone' = clone
       ELSE /\ clone' = [exists |-> TRUE, head |-> DefaultBranch]
            /\ GoesTo(i, "checkout")
    /\ UNCHANGED <<format_html, codec>>

\* A _get_default_branch that asks for the branch that is checked out.
get_default_branch_head(c) == c.head

\* _get_default_branch: the branch origin/HEAD points to.
get_default_branch(c) == DefaultBranch

\* get_git_repository after the clone is there: git fetch, the default
\* branch when no ref was given, git checkout, the update of a branch.
get_git_repository_checkout(i) ==
    /\ wk[i].pc = "checkout"
    /\ LET ref == IF wk[i].args.ref = None THEN get_default_branch(clone)
                  ELSE wk[i].args.ref
       IN  IF ref \in Refs
           THEN /\ clone' = [clone EXCEPT !.head = ref]
                /\ GoesTo(i, "tree")
           ELSE /\ Fails(i, "Failed to clone repository: Failed to checkout ref")
                /\ clone' = clone
    /\ UNCHANGED <<format_html, codec>>

\* get_tree and the look-up of the name: tmt reads the working tree as it
\* is now; the outcome names the ref the object was read at.
get_tree(i) ==
    /\ wk[i].pc = "tree"
    /\ wk' = [wk EXCEPT ![i] = [@ EXCEPT !.pc = "done", !.out = Returned(clone.head)]]
    /\ UNCHANGED <<clone, format_html, codec>>

\* The worker is free for its next call.
main_returned(i) ==
    /\ wk[i].pc = "done"
    /\ wk' = [wk EXCEPT ![i] = Idle]
    /\ UNCHANGED <<clone, format_html, codec>>

\* The request two clients submit at the same time: a test of the
\* repository, no ref.
SameRequest ==
    [test_url |-> TRUE, test_name |-> TRUE, plan_url |-> FALSE, plan_name |-> FALSE,
     ref |-> None]

\* The wrapper of task i once its work service.main has ended: the update
\* with what it returned or raised.
task_wrapper_service(i) ==
    /\ wk[i].pc = "done"
    /\ task_wrapper_func(i, IF wk[i].out.kind = "returned" THEN {JsonText} ELSE {},
                            IF wk[i].out.kind = "raised" THEN {wk[i].out.value} ELSE {})
    /\ wk' = [wk EXCEPT ![i] = Idle]
    /\ UNCHANGED <<clone, format_html, codec>>

\* ------------------------------------------------------------ specifications
\* Submissions and the steps of their wrappers.
NextTasks ==
    \/ \E fmt \in Formats : process_async_request(fmt) /\ UNCHANGED svcvars
    \/ \E i \in Ids : task_wrapper_start(i) /\ UNCHANGED svcvars
    \/ \E i \in Ids : update_task_set(i) /\ UNCHANGED svcvars
    \/ \E i \in Ids : task_wrapper_call(i) /\ UNCHANGED svcvars

\* The task manager with callers polling it directly, and time passing.
Next ==
    \/ NextTasks
    \/ \E i \in Ids : get_task_info(i) /\ UNCHANGED svcvars
    \/ Tick /\ UNCHANGED svcvars

Spec == Init /\ [][Next]_vars

\* The API: submissions that run service.main, and clients asking the three
\* endpoints about tasks, within the retention window of every task.
NextHttp ==
    \/ \E fmt \in Formats : process_async_request(fmt) /\ UNCHANGED svcvars
    \/ \E i \in Ids : task_wrapper_start(i) /\ UNCHANGED svcvars
    \/ \E i \in Ids : update_task_set(i) /\ UNCHANGED svcvars
    \/ \E i \in Ids : task_wrapper_main(i) /\ UNCHANGED svcvars
    \/ \E t \in Known \cup {EmptyId} : get_task_status(t) /\ UNCHANGED svcvars
    \/ \E t \in Known \cup {EmptyId} : get_task_status_html(t) /\ UNCHANGED svcvars
    \/ \E t \in Known, fmt \in Formats : root(TaskRequest(t, fmt)) /\ UNCHANGED svcvars

SpecHttp == Init /\ [][NextHttp]_vars

\* The same as SpecHttp, with time passing.
NextHttpExpiry == NextHttp \/ (Tick /\ UNCHANGED svcvars)
SpecHttpExpiry == Init /\ [][NextHttpExpiry]_vars

\* The root endpoint alone, under every request.
NextRoot == \E req \in Requests : root(req) /\ UNCHANGED svcvars
SpecRoot == Init /\ [][NextRoot]_vars

\* The same as Spec, with a store whose bytes may be overwritten from outside.
NextCorrupt == Next \/ (\E i \in Ids : corrupt(i) /\ UNCHANGED svcvars)
SpecCorrupt == Init /\ [][NextCorrupt]_vars

\* The same as Spec, with a store that may stop answering.
NextFault ==
    \/ Next
    \/ store_down /\ UNCHANGED svcvars
    \/ store_up /\ UNCHANGED svcvars
    \/ \E i \in Ids : task_wrapper_except(i) /\ UNCHANGED svcvars
SpecFault == Init /\ [][NextFault]_vars

\* The calls of service.main: every combination of urls and names without
\* a ref, and the test request with every ref.
CallArgs ==
    {a \in MainArgs : a.ref = None \/ a = [SameRequest EXCEPT !.ref = a.ref]}

\* service.main called in concurrent workers on one repository URL.
NextRepo ==
    \/ \E i \in Ids, a \in CallArgs : main(i, a) /\ UNCHANGED <<taskvars, resp>>
    \/ \E i \in Ids : get_git_repository_exists(i) /\ UNCHANGED <<taskvars, resp>>
    \/ \E i \in Ids : clone_repository(i) /\ UNCHANGED <<taskvars, resp>>
    \/ \E i \in Ids : get_git_repository_checkout(i) /\ UNCHANGED <<taskvars, resp>>
    \/ \E i \in Ids : get_tree(i) /\ UNCHANGED <<taskvars, resp>>
    \/ \E i \in Ids : main_returned(i) /\ UNCHANGED <<taskvars, resp>>

SpecRepo == Init /\ [][NextRepo]_vars

\* The same calls, one after the other.
NextRepoSeq ==
    \/ \E i \in Ids, a \in CallArgs :
          /\ \A j \in Ids : wk[j].pc \in {"idle", "done"}
          /\ main(i, a) /\ UNCHANGED <<taskvars, resp>>
    \/ \E i \in Ids : get_git_repository_exists(i) /\ UNCHANGED <<taskvars, resp>>
    \/ \E i \in Ids : clone_repository(i) /\ UNCHANGED <<taskvars, resp>>
    \/ \E i \in Ids : get_git_repository_checkout(i) /\ UNCHANGED <<taskvars, resp>>
    \/ \E i \in Ids : get_tree(i) /\ UNCHANGED <<taskvars, resp>>
    \/ \E i \in Ids : main_returned(i) /\ UNCHANGED <<taskvars, resp>>

SpecRepoSeq == Init /\ [][NextRepoSeq]_vars

\* Submissions of one and the same request, whose wrappers run service.main
\* on the shared clone directory.
NextWork ==
    \/ \E fmt \in Formats : process_async_request(fmt) /\ UNCHANGED svcvars
    \/ \E i \in Ids : task_wrapper_start(i) /\ UNCHANGED svcvars
    \/ \E i \in Ids : update_task_set(i) /\ UNCHANGED svcvars
    \/ \E i \in Ids :
          /\ pc[i] = "call"
          /\ main(i, SameRequest) /\ resp' = NoResp /\ UNCHANGED taskvars
    \/ \E i \in Ids : get_git_repository_exists(i) /\ resp' = NoResp /\ UNCHANGED taskvars
    \/ \E i \in Ids : clone_repository(i) /\ resp' = NoResp /\ UNCHANGED taskvars
    \/ \E i \in Ids : get_git_repository_checkout(i) /\ resp' = NoResp /\ UNCHANGED taskvars
    \/ \E i \in Ids : get_tree(i) /\ resp' = NoResp /\ UNCHANGED taskvars
    \/ \E i \in Ids : task_wrapper_service(i)

SpecWork == Init /\ [][NextWork]_vars

\* Data models of every class on their way through storage.
NextCodec ==
    \/ \E x \in TestData \cup PlanData \cup TestPlanData :
          to_model(x) /\ UNCHANGED <<taskvars, resp>>
    \/ Serialize /\ UNCHANGED <<taskvars, resp>>
    \/ Deserialize /\ UNCHANGED <<taskvars, resp>>
    \/ Formatted /\ UNCHANGED <<taskvars, resp>>

SpecCodec == Init /\ [][NextCodec]_vars

\* The first api.py in front of the task queue.
NextApi ==
    \/ \E req \in ApiRequests : api_find_test(req)
    \/ \E t \in used : api_status(t)
    \/ \E i \in Ids : task_wrapper_start(i) /\ UNCHANGED svcvars
    \/ \E i \in Ids : update_task_set(i) /\ UNCHANGED svcvars
    \/ \E i \in Ids : task_wrapper_main(i) /\ UNCHANGED svcvars

SpecApi == Init /\ [][NextApi]_vars

\* ------------------------------------------------------------------ claims
HasKey(s, task_id) == client_get(s, task_id).tag # "nil"
StoredInfo(task_id) == json_loads(store[task_id])

\* C1: the statuses get_task_info reads from a task's record never go back.
\* A poll of a record returns the status last written under the key, and
\* every status written under a key is at least the one written before it
\* in PENDING < STARTED < {SUCCESS, FAILURE}; after SUCCESS or FAILURE the
\* only status ever written again is that same one.  The record may vanish
\* through expiry (get_task_info then synthesizes "Task not found").
C1_MonotonicStatus ==
    [][\A i \in Ids :
         /\ (get_task_info(i) /\ HasRecord(store, i))
               => (~poll'.view.raised /\ poll'.view.info.status = last[i])
         /\ (HasRecord(store', i) /\ last[i] # None)
               => /\ Rank(json_loads(store'[i]).status) >= Rank(last[i])
                  /\ Terminal(last[i]) => json_loads(store'[i]).status = last[i]
      ]_vars

C1_Witness ==
    \E i \in Ids :
        /\ pc[i] = "done" /\ HasRecord(store, i)
        /\ poll.id = i
        /\ poll.view.info.status = SUCCESS

\* C2: in every stored record result and error are not both set, and both
\* are None while the status is PENDING or STARTED.
C2_ResultErrorExclusive ==
    \A i \in Ids :
        HasRecord(store, i) =>
            /\ ~(StoredInfo(i).result # None /\ StoredInfo(i).error # None)
            /\ StoredInfo(i).status \in {PENDING, STARTED}
                  => (StoredInfo(i).result = None /\ StoredInfo(i).error = None)

C2_Witness ==
    \E i, j \in Ids :
        /\ HasRecord(store, i) /\ StoredInfo(i).status = SUCCESS /\ StoredInfo(i).result # None
        /\ HasRecord(store, j) /\ StoredInfo(j).status = FAILURE /\ StoredInfo(j).error # None

\* C3: a task whose wrapper has run to its end, and whose record never
\* expired, is SUCCESS if the work function returned (whatever it returned)
\* and FAILURE if it raised.
C3_WrapperEndsTerminal ==
    \A i \in Ids :
        (pc[i] = "done" /\ ~expired[i] /\ HasRecord(store, i)) =>
            StoredInfo(i).status = IF work[i].kind = "returned" THEN SUCCESS ELSE FAILURE

\* C4: get_task_info for an id whose key is not in the store (never created,
\* or expired) returns the synthesized FAILURE record "Task not found",
\* does not raise and writes nothing.
C4_UnknownIdNotFound ==
    [][\A i \in Ids :
         (get_task_info(i) /\ ~HasKey(store, i))
            => /\ poll'.view = Ok(NotFoundInfo(i))
               /\ UNCHANGED <<store, ttl>>
      ]_vars

C4_Witness ==
    /\ poll.id \in Ids
    /\ expired[poll.id] /\ ~HasKey(store, poll.id)
    /\ poll.view = Ok(NotFoundInfo(poll.id))
    /\ \E j \in Ids : j \notin used

\* C5: get_task_info for an id whose key holds bytes that are no JSON
\* returns a FAILURE record with error "Corrupted task data" and no result,
\* and does not raise.
C5_CorruptedReadsAsFailure ==
    (poll.id \in Ids /\ store[poll.id] = Garbage) =>
        poll.view = Ok([NotFoundInfo(poll.id) EXCEPT !.error = "Corrupted task data"])

\* C6: update_task for an id whose key is not in the store writes nothing,
\* leaves the key absent and returns to the wrapper without raising,
\* whatever status, result and error it was called with.
C6_UpdateAbsentIsNoOp ==
    [][\A i \in Ids :
         ((task_wrapper_start(i) \/ task_wrapper_call(i)) /\ ~HasKey(store, i))
            => /\ UNCHANGED <<store, ttl>>
               /\ ~HasKey(store', i)
               /\ pc'[i] = AfterUpdate(arg'[i].status)
      ]_vars

C6_Witness ==
    \E i \in Ids :
        /\ "update non-existent" \in log[i]
        /\ pc[i] = "done" /\ arg[i].status = SUCCESS /\ arg[i].result = "data"
        /\ ~HasKey(store, i)

\* C7: when execute_task has returned the id and the submitting request is
\* answered, the record is there with status PENDING and neither result nor
\* error, the wrapper is queued and the work function has not been called,
\* and the response reports PENDING.
C7_SubmitReturnsPending ==
    (resp.op = "submit" /\ resp.code = 200) =>
        /\ resp.task_id \in Ids
        /\ store[resp.task_id] = json_dumps(NewTaskInfo(resp.task_id))
        /\ pc[resp.task_id] = "queued"
        /\ work[resp.task_id] = NoWork
        /\ resp.status = PENDING

C7_Witness ==
    /\ resp.op = "submit" /\ resp.code = 200 /\ resp.fmt = "json"
    /\ \E j \in Ids : j # resp.task_id /\ pc[j] = "done" /\ work[j].kind = "raised"

\* C8: no exception leaves task_wrapper, whatever the work function raises
\* and whatever happens while the wrapper records STARTED, SUCCESS or FAILURE.
C8_NoExceptionLeavesWrapper ==
    \A i \in Ids : pc[i] # "escaped"

\* C9: get_task_info changes neither the stored record nor its remaining
\* lifetime, and a second call for the same id, with no write and no expiry
\* of the key since the first, returns what the first returned.
C9_PollIdempotent ==
    [][\A i \in Ids :
         get_task_info(i)
            => /\ UNCHANGED <<store, ttl>>
               /\ poll.id = i => poll'.view = poll.view
      ]_vars

C9_Witness ==
    /\ poll.id \in Ids
    /\ HasRecord(store, poll.id)
    /\ 0 < ttl[poll.id] /\ ttl[poll.id] < DEFAULT_TASK_EXPIRY
    /\ poll.view = Ok(StoredInfo(poll.id))

\* C10: /status and /status/html with an empty task-id answer 400 with
\* detail "task-id is required" without looking any task up and without
\* changing any state.
C10_EmptyTaskIdRejected ==
    [][(get_task_status(EmptyId) \/ get_task_status_html(EmptyId))
          => /\ resp'.code = 400
             /\ resp'.detail = "task-id is required"
             /\ ~resp'.looked
             /\ UNCHANGED <<store, ttl, storeUp, used, pc, arg, rd, work, log,
                            expired, last, poll>>
      ]_vars

C10_Witness ==
    /\ resp.op = "status_html" /\ resp.task_id = EmptyId /\ resp.code = 400
    /\ \E i \in Ids : HasRecord(store, i) /\ StoredInfo(i).status = SUCCESS

\* ---------------------------------------------------------- the HTTP views
\* What a client that asks about task_id is shown in the store s.
ViewIn(s, task_id) == get_task_info_view(s, storeUp, task_id)

\* The view is a failure whose text contains "not found" in any letter case.
IsNotFound(view) ==
    /\ ~view.raised
    /\ view.info.status = FAILURE
    /\ Contains(Lower(Spelling(view.info.error)), Spelling("not found"))

\* C11: for a task in FAILURE whose error text contains "not found" in any
\* letter case (the "Task not found" of an unknown or expired id included),
\* GET /?task-id=<id> and GET /status?task-id=<id> answer 404 with the error
\* text as detail, and every later poll of the id is answered 404 again.
C11_NotFoundIs404AndStays ==
    [][\A t \in Known :
         IsNotFound(ViewIn(store, t)) =>
            /\ \A fmt \in Formats :
                  root(TaskRequest(t, fmt))
                     => (resp'.code = 404 /\ resp'.detail = ViewIn(store, t).info.error)
            /\ get_task_status(t)
                  => (resp'.code = 404 /\ resp'.detail = ViewIn(store, t).info.error)
            /\ handle_task_result(ViewIn(store', t), "json").code = 404
            /\ StatusResponse("status", t, ViewIn(store', t)).code = 404
      ]_vars

\* The response in hand is the answer of GET /?task-id=<id> to a known id.
RootAnswer == resp.op = "root" /\ resp.task_id # EmptyId

\* C12: for a task in FAILURE whose error text does not contain "not found",
\* GET /?task-id=<id> answers 500 with the stored error text in detail, and
\* never 200.
C12_GenericFailureIs500 ==
    RootAnswer =>
        LET view == ViewIn(store, resp.task_id)
        IN  (~view.raised /\ view.info.status = FAILURE /\ ~IsNotFound(view))
                => (resp.code = 500 /\ resp.detail = view.info.error)

\* C13: for a task in SUCCESS the stored result is delivered to the client,
\* whether it is structured data or output that is already formatted (the
\* HTML of a task created with format=html): the answer is 200 with the
\* result as body.
C13_StoredResultDelivered ==
    RootAnswer =>
        LET view == ViewIn(store, resp.task_id)
        IN  (~view.raised /\ view.info.status = SUCCESS /\ view.info.result \in MainReturns)
                => (resp.code = 200 /\ resp.body = "result")

\* The stored result of the view cannot be finalized in the format.
CannotFinalize(view, out_format) ==
    /\ ~view.raised
    /\ view.info.status = SUCCESS
    /\ view.info.result # None
    /\ \/ deserialize_data(view.info.result).raised
       \/ format_data(deserialize_data(view.info.result).info, out_format).raised

\* C14: for a task in SUCCESS whose stored result cannot be finalized,
\* GET /?task-id=<id> answers 500 with a detail that begins "Error handling
\* task result"; it never answers 200, and it leaves the stored record as
\* it was (still SUCCESS).
C14_FinalizationErrorIs500 ==
    [][\A t \in Known, fmt \in Formats :
         (root(TaskRequest(t, fmt)) /\ CannotFinalize(ViewIn(store, t), fmt))
            => /\ resp'.code = 500
               /\ StartsWith(Spelling(resp'.detail), Spelling("Error handling task result"))
               /\ store' = store /\ ttl' = ttl
               /\ json_loads(store'[t]).status = SUCCESS
      ]_vars

C14_Witness ==
    /\ RootAnswer
    /\ resp.code = 500
    /\ resp.detail = "Error handling task result: Expecting value"
    /\ HasRecord(store, resp.task_id)
    /\ StoredInfo(resp.task_id).status = SUCCESS
    /\ StoredInfo(resp.task_id).result = HtmlText

\* The response in hand is a task-status view of the task it names.
StatusView ==
    /\ resp.op \in {"submit", "root", "status", "status_html"}
    /\ resp.task_id \in Ids
    /\ resp.body \in {"task_out", "status_page"}

\* C15: every task-status view of a task in PENDING or STARTED carries the
\* task's id, its current status and a callback URL for the same id, which
\* points to /status/html when the requested format is html and to /status
\* when it is json or yaml.
C15_StatusViewContents ==
    (StatusView /\ HasRecord(store, resp.task_id)
                /\ StoredInfo(resp.task_id).status \in {PENDING, STARTED})
        => /\ resp.status = StoredInfo(resp.task_id).status
           /\ resp.callback.task_id = resp.task_id
           /\ resp.callback.path = IF resp.fmt = "html" THEN "/status/html" ELSE "/status"

\* The response in hand is about a task that is in PENDING or STARTED, and
\* is the one that created it or the answer of a later GET /?task-id=<id>.
RunningView ==
    /\ resp.op \in {"submit", "root"}
    /\ resp.task_id \in Ids
    /\ resp.code = 200
    /\ HasRecord(store, resp.task_id)
    /\ StoredInfo(resp.task_id).status \in {PENDING, STARTED}

\* C16 as stated: the view of a task in PENDING or STARTED is the HTML
\* status page when it is requested in HTML and a task-status object when
\* it is requested in JSON or YAML, in the creating response and in a later
\* GET /?task-id=<id>&format=<fmt>.
C16_PageForHtmlEverywhere ==
    RunningView =>
        resp.body = IF resp.fmt = "html" THEN "status_page" ELSE "task_out"

\* C16 amended: the response that creates the task is the HTML status page
\* for format html and a task-status object for json and yaml; a later
\* GET /?task-id=<id>&format=<fmt> answers a task-status object in every
\* format, html included, whose callback URL is the one of the format.
C16_PageOnlyWhenCreating ==
    RunningView =>
        /\ resp.op = "submit"
              => resp.body = IF resp.fmt = "html" THEN "status_page" ELSE "task_out"
        /\ resp.op = "root"
              => /\ resp.body = "task_out"
                 /\ resp.status = StoredInfo(resp.task_id).status
                 /\ resp.callback = Url(IF resp.fmt = "html" THEN "/status/html" ELSE "/status",
                                        resp.task_id, None)

C16_Witness ==
    /\ RunningView
    /\ resp.op = "root"
    /\ resp.fmt = "html"
    /\ resp.body = "task_out"
    /\ resp.status = STARTED

\* The format of a request to / that names none.
DefaultFormat == "json"

\* What a client that follows the Location of a 303 is answered.
Follow(location) ==
    handle_task_result(ViewIn(store, location.task_id),
                       IF location.fmt = None THEN DefaultFormat ELSE location.fmt)

\* C17: GET /status/html?task-id=<id> answers 303 with the Location
\* {API_HOSTNAME}/?task-id=<id> exactly when the task is in SUCCESS with a
\* non-empty result, and 200 with an HTML status page in every other task
\* state; following the 303 yields the final result with status 200.
C17_RedirectOnSuccess ==
    (resp.op = "status_html" /\ resp.task_id # EmptyId) =>
        LET view == ViewIn(store, resp.task_id)
        IN  IF ~view.raised /\ view.info.status = SUCCESS /\ view.info.result # None
            THEN /\ resp.code = 303
                 /\ resp.location = Url("/", resp.task_id, None)
                 /\ Follow(resp.location).code = 200
                 /\ Follow(resp.location).body = "result"
            ELSE /\ resp.code = 200
                 /\ resp.body = "status_page"

\* The response r answers a request to /.
FromRoot(r) == r.op = "root" \/ r.req # NoReq

\* The response in hand answers a task-creating request to /.
Creating == FromRoot(resp) /\ resp.req.query /\ resp.req.task_id = EmptyId

TestPairOk(req) == req.test_url <=> req.test_name
PlanPairOk(req) == req.plan_url <=> req.plan_name
AtLeastOnePair(req) == (req.test_url /\ req.test_name) \/ (req.plan_url /\ req.plan_name)

Rejected(detail) ==
    /\ resp.code = 400
    /\ resp.raised = "HTTPException"
    /\ resp.detail = detail

\* C18: a task-creating request to / is accepted only if test-url and
\* test-name are both present or both absent, plan-url and plan-name are
\* both present or both absent, and at least one pair is present; otherwise
\* it is rejected with 400 and the message of the first rule it violates,
\* in the order test pair, plan pair, at least one.
C18_ValidationOrder ==
    Creating =>
        IF ~TestPairOk(resp.req)
        THEN Rejected("Both test-url and test-name must be provided together")
        ELSE IF ~PlanPairOk(resp.req)
        THEN Rejected("Both plan-url and plan-name must be provided together")
        ELSE IF ~AtLeastOnePair(resp.req)
        THEN Rejected("At least one of test or plan parameters must be provided")
        ELSE resp.raised # "HTTPException"

C18_Witness ==
    /\ Creating
    /\ resp.req.test_url /\ ~resp.req.test_name
    /\ ~resp.req.plan_url /\ resp.req.plan_name
    /\ Rejected("Both test-url and test-name must be provided together")

\* C19: a request to / with a non-empty task-id only reads the task: it
\* creates no task and schedules no work, whatever other parameters it has;
\* a request to / that fails validation or has no query parameter (the 307
\* redirect to /docs) creates no task either.
C19_TaskIdOnlyReads ==
    [][(/\ FromRoot(resp')
        /\ \/ resp'.req.task_id # EmptyId
           \/ ~resp'.req.query
           \/ ~(TestPairOk(resp'.req) /\ PlanPairOk(resp'.req) /\ AtLeastOnePair(resp'.req)))
          => /\ UNCHANGED <<store, ttl, used, pc, arg, rd, work, log>>
             /\ ~resp'.req.query => (resp'.code = 307 /\ resp'.location.path = "/docs")
      ]_vars

C19_Witness ==
    /\ FromRoot(resp)
    /\ resp.req.task_id \in used
    /\ resp.req.test_url /\ resp.req.test_name
    /\ resp.req.use_celery
    /\ resp.code = 200
    /\ used = {resp.req.task_id}
    /\ \A i \in Ids \ used : ~HasKey(store, i) /\ pc[i] = "idle"

\* C20: an error raised on the synchronous path is answered from its
\* message alone: 404 if the lower-cased message contains "not found";
\* otherwise 400 if it contains "must be provided together", "missing
\* required" or "invalid combination"; otherwise 500; the body is
\* {"detail": <message>} in every case.
C20_StatusFromMessage ==
    (FromRoot(resp) /\ resp.raised = "GeneralError") =>
        LET lower == Lower(Spelling(resp.detail))
        IN  /\ ~resp.req.use_celery
            /\ resp.body = "detail"
            /\ resp.detail \in GeneralErrors
            /\ resp.code =
                 IF Contains(lower, Spelling("not found")) THEN 404
                 ELSE IF \/ Contains(lower, Spelling("must be provided together"))
                         \/ Contains(lower, Spelling("missing required"))
                         \/ Contains(lower, Spelling("invalid combination"))
                 THEN 400
                 ELSE 500

C20_Witness ==
    /\ resp.op = "root"
    /\ resp.raised = "GeneralError"
    /\ resp.detail = "Test '/missing required' not found"
    /\ resp.code = 404

\* ------------------------------------------------------ the wrapper's order
\* The step writes a record with a terminal status under the key of i.
WritesTerminal(i) ==
    /\ HasRecord(store', i)
    /\ store'[i] # store[i]
    /\ Terminal(json_loads(store'[i]).status)

\* C23: the wrapper invokes the work function only after its
\* update_task(STARTED), and it writes SUCCESS (with the work's return value
\* as result) or FAILURE (with str(exception) as error) only after the work
\* function has returned or raised; a record with a terminal status is the
\* record of a task whose work has finished, never of one whose work has
\* not begun.
C23_WrapperStepOrder ==
    [][\A i \in Ids :
         /\ work'[i] # work[i] => (pc[i] = "call" /\ arg[i].status = STARTED)
         /\ WritesTerminal(i) =>
               /\ work[i] # NoWork
               /\ json_loads(store'[i]).status = SUCCESS
                     => work[i] = Returned(json_loads(store'[i]).result)
               /\ json_loads(store'[i]).status = FAILURE
                     => work[i] = Raised(json_loads(store'[i]).error)
         /\ (HasRecord(store', i) /\ Terminal(json_loads(store'[i]).status))
               => work'[i] # NoWork
      ]_vars

\* C28: a task record that has expired is never re-created: once the key of
\* a task has run out of time it stays absent, also when an update_task
\* that had read the record before is still to write, and get_task_info
\* keeps returning "Task not found" for the id.
C28_ExpiredStaysGone ==
    [][\A i \in Ids :
         (expired[i] /\ ~HasKey(store, i))
            => /\ ~HasKey(store', i)
               /\ get_task_info_view(store', storeUp', i) = Ok(NotFoundInfo(i))
      ]_vars

\* The step is one of the task manager's operations for task i: its
\* creation, a step of one of its update_task calls, or a step of its
\* wrapper; each of them moves the task on.
OperationOf(i) == pc'[i] # pc[i]

\* C29: create_task, update_task and a wrapper run for one task id leave
\* the record of every other task id as it is, bytes and time to live.
C29_TasksIndependent ==
    [][\A i \in Ids :
         OperationOf(i) => \A j \in Ids \ {i} : store'[j] = store[j] /\ ttl'[j] = ttl[j]
      ]_vars

\* The task submitted second has reached SUCCESS while the one submitted
\* first is still PENDING.
C29_Witness ==
    /\ used = {1, 2}
    /\ HasRecord(store, 1) /\ StoredInfo(1).status = PENDING /\ pc[1] = "queued"
    /\ HasRecord(store, 2) /\ StoredInfo(2).status = SUCCESS /\ pc[2] = "done"

\* C21: two submissions of the same request that execute at the same time
\* get two distinct task ids and neither task fails: no task of them is
\* stored as FAILURE, whatever the other does to the repository meanwhile.
C21_ConcurrentSameRequest ==
    /\ \A i \in Ids : HasRecord(store, i) => StoredInfo(i).id = i
    /\ \A i \in Ids : HasRecord(store, i) => StoredInfo(i).status # FAILURE

\* Worker i is called in this step.
Called(i) == wk[i].pc = "idle" /\ wk'[i].pc # "idle"

\* The call of worker i has ended with this GeneralError and has left the
\* clone directory alone.
RaisesUntouched(i, msg) ==
    /\ wk'[i].pc = "done" /\ wk'[i].out = Raised(msg)
    /\ clone' = clone

\* The call of worker i goes on with this request.
Selects(i, branch) ==
    wk'[i].pc = "exists" /\ wk'[i].branch = branch /\ wk'[i].out = NoWork

\* C24: service.main dispatches on the names that are there: the test name
\* alone selects the test request, the plan name alone the plan request,
\* both the combined request; when the url the selected request needs is
\* missing it raises "Missing required test parameters", "Missing required
\* plan parameters" or "Missing required test/plan parameters", and with
\* no name "Invalid combination of test and plan parameters", each time
\* before the repository is touched.
C24_DispatchOnNames ==
    [][\A i \in Ids : Called(i) =>
         LET a == wk'[i].args
         IN  /\ (a.test_name /\ ~a.plan_name) =>
                  IF a.test_url THEN Selects(i, "test")
                  ELSE RaisesUntouched(i, "Missing required test parameters")
             /\ (a.plan_name /\ ~a.test_name) =>
                  IF a.plan_url THEN Selects(i, "plan")
                  ELSE RaisesUntouched(i, "Missing required plan parameters")
             /\ (a.test_name /\ a.plan_name) =>
                  IF a.test_url /\ a.plan_url THEN Selects(i, "testplan")
                  ELSE RaisesUntouched(i, "Missing required test/plan parameters")
             /\ (~a.test_name /\ ~a.plan_name) =>
                  RaisesUntouched(i, "Invalid combination of test and plan parameters")
      ]_vars

\* A call with both names and one url has ended with the error of the
\* combined request while no clone of the repository exists, and another
\* call with the test name and its url is on its way to the repository.
C24_Witness ==
    /\ ~clone.exists
    /\ \E i \in Ids :
          /\ wk[i].pc = "done" /\ wk[i].args.test_name /\ wk[i].args.plan_name
          /\ ~wk[i].args.plan_url
          /\ wk[i].out = Raised("Missing required test/plan parameters")
    /\ \E i \in Ids :
          /\ wk[i].pc = "exists" /\ wk[i].branch = "test" /\ ~wk[i].args.plan_name

\* _validate_parameters returns for the parameters of this call.
Validated(a) == validate_parameters(a.test_url, a.test_name, a.plan_url, a.plan_name) = None

\* The errors of service.main about its own parameters.
ParameterErrors ==
    {"Missing required test parameters", "Missing required plan parameters",
     "Missing required test/plan parameters",
     "Invalid combination of test and plan parameters"}

\* C30: request validation and service.main agree: for parameters that
\* _validate_parameters accepts, main selects one of its three requests
\* and raises none of its "Missing required ..." or "Invalid combination
\* of test and plan parameters" errors; a call that ended with one of
\* these errors had parameters that _validate_parameters rejects.
C30_ValidationAgreesWithMain ==
    \A i \in Ids :
        /\ (wk[i].pc # "idle" /\ Validated(wk[i].args)) =>
              /\ wk[i].branch \in {"test", "plan", "testplan"}
              /\ ~(wk[i].out.kind = "raised" /\ wk[i].out.value \in ParameterErrors)
        /\ (wk[i].out.kind = "raised" /\ wk[i].out.value \in ParameterErrors) =>
              ~Validated(wk[i].args)

\* One call with a plan url and a plan name alone has read the plan, and
\* another with a test name and a plan url has ended with the error about
\* the test parameters.
C30_Witness ==
    /\ \E i \in Ids :
          /\ wk[i].pc = "done" /\ wk[i].branch = "plan" /\ wk[i].out.kind = "returned"
          /\ wk[i].args.plan_url /\ wk[i].args.plan_name /\ ~wk[i].args.test_name
    /\ \E i \in Ids :
          /\ wk[i].pc = "done" /\ wk[i].args.test_name /\ ~wk[i].args.test_url
          /\ wk[i].args.plan_url /\ ~wk[i].args.plan_name
          /\ wk[i].out = Raised("Missing required test parameters")

\* C26: get_git_repository without a ref leaves the clone at the default
\* branch of the repository, whatever ref the calls before it checked out:
\* when its call has checked out, the working tree is at the default
\* branch, and the object is read at the default branch.
C26_NoRefIsDefaultBranch ==
    \A i \in Ids :
        wk[i].args.ref = None =>
            /\ wk[i].pc = "tree" => (clone.exists /\ clone.head = DefaultBranch)
            /\ (wk[i].pc = "done" /\ wk[i].out.kind = "returned")
                  => wk[i].out = Returned(DefaultBranch)

\* A call with the ref v1 has read its object at v1 and ended; the call
\* without a ref that came after it has checked out and finds the working
\* tree at the default branch.
C26_Witness ==
    \E i, j \in Ids :
        /\ wk[j].pc = "done" /\ wk[j].args.ref = "v1" /\ wk[j].out = Returned("v1")
        /\ wk[i].pc = "tree" /\ wk[i].args.ref = None
        /\ clone.head = DefaultBranch

\* C27: of two calls for the same repository with different refs that run
\* at the same time, each reads its object in the working tree of the ref
\* it asked for, however their checkouts and reads interleave.
C27_OwnRefUnderConcurrency ==
    \A i \in Ids :
        (wk[i].pc = "done" /\ wk[i].out.kind = "returned")
            => wk[i].out = Returned(IF wk[i].args.ref = None THEN DefaultBranch
                                     ELSE wk[i].args.ref)

C25_StatusFromStoreAlone ==
    resp.op = "api_status" =>
        resp = api_status_response(resp.task_id, AsyncResult(resp.task_id).info, FALSE)
====
